---- MODULE Spec2Model ----
(***************************************************************************)
(* Voice RAG assistant: the KnowledgeBase orchestrator                     *)
(* (src/src/rag/knowledge_base.py) over its two collaborators, the         *)
(* document collection and the generation client, the TextToSpeech         *)
(* wrapper (src/src/tts/text_to_speech.py), and the UI handlers of         *)
(* src/app.py that run the pipeline of SpeechToText.transcribe,            *)
(* KnowledgeBase.query and TextToSpeech.speak.                             *)
(*                                                                         *)
(* Strings that the code builds by formatting are built here the same way: *)
(* identifiers are "doc_" followed by the decimal count, and longer texts  *)
(* (context, user message) are sequences of string pieces in the order the *)
(* f-strings concatenate them.                                             *)
(***************************************************************************)
EXTENDS Integers, Sequences, FiniteSets, TLC

\* ------------------------------------------------------------------ bounds

\* Largest number of documents the collection is allowed to grow to.
MaxCount == 3
\* Longest batch handed to add_documents.
MaxBatch == 2

\* ------------------------------------------------------- program constants

\* query(question, n_results = 3)
DefaultNResults == 3
\* max_tokens of the generation call
MaxTokens == 500

ModelId == "claude-sonnet-4-20250514"
SystemPrompt == "You are a helpful voice assistant. Answer questions based on the provided context."
FallbackAnswer == "I don't have any information about that in my knowledge base."

\* ------------------------------------------------------------ input domains

\* Threads of the UI server that call into the one shared KnowledgeBase.
Callers == {"t1", "t2"}

Texts == {"pool hours", "check-in time"}
Questions == {"Where is the pool?", "When is check-in?"}
\* What the generation service may answer; one value carries outer whitespace.
Answers == {"Check-in is at 3 PM.", "  The pool is on 5.\n"}

\* A metadata dict: a function from its keys to strings.
Meta(k, v) == [x \in {k} |-> v]

\* Non-empty sequences over S of length at most n.
SeqsUpTo(S, n) == UNION {[1..k -> S] : k \in 1..n}

\* Python's None and a present value.
None == [none |-> TRUE]
Some(v) == [none |-> FALSE, val |-> v]

TextBatches == SeqsUpTo(Texts, MaxBatch)
\* metadatas: omitted, or a list (of the texts' length or not) whose records
\* carry a 'source' key or lack it.
MetaLists == {<<Meta("topic", "hotel")>>,
              <<Meta("source", "custom-source"), Meta("topic", "hotel")>>}
MetaArgs == {None} \cup {Some(m) : m \in MetaLists}
NResults == 1..DefaultNResults

\* ------------------------------------------------------------------- state

VARIABLES
    store,        \* the collection: a set of records [id, document, metadata]
    pc,           \* per caller: where its current call stands
    args,         \* per caller: the arguments of its current call
    metadatas,    \* add_documents: the local metadatas after line 35
    ids,          \* add_documents: the identifiers computed so far (line 37)
    context,      \* query: the assembled context (line 70)
    sources,      \* query: the collected source labels (line 68)
    claudeCalls,  \* per caller: the generation client's call log for its current call
    ret,          \* per caller: what its current call returned or raised
    apiKey,       \* the environment: ELEVENLABS_API_KEY, None when unset
    initRet,      \* TextToSpeech: what the constructor returned or raised
    client,       \* TextToSpeech: self.client, None while no client was created
    ttsCall,      \* TextToSpeech: the last call made on the class, with its arguments
    voice,        \* TextToSpeech: self.voice
    convertCalls, \* TextToSpeech: the synthesis client's call log for the last speak call
    files,        \* the file system: path -> content, None where no file is
    audio,        \* TextToSpeech: the chunks the last speak call received, in order
    speakRet,     \* TextToSpeech: what the last speak call returned or raised
    pvPc,         \* process_voice: where the handler stands
    pvArgs,       \* process_voice: its argument
    whisperText,  \* SpeechToText.transcribe: result["text"] of the speech model
    transcription, \* process_voice: the local transcription
    answer,       \* process_voice: the local answer
    calls,        \* process_voice: the collaborators it has invoked, in order
    pvRet,        \* process_voice: what it returned or raised
    adPc,         \* add_document: where the handler stands
    adRet         \* add_document: what it returned or raised

kbVars == <<store, pc, args, metadatas, ids, context, sources, claudeCalls, ret>>
ttsVars == <<apiKey, initRet, client, ttsCall, voice, convertCalls, audio, files,
             speakRet>>
appVars == <<pvPc, pvArgs, whisperText, transcription, answer, calls, pvRet,
             adPc, adRet>>
vars == <<kbVars, ttsVars, appVars>>

NoArgs == [op |-> "none"]
NoRet == [kind |-> "none"]
Returned(v) == [kind |-> "value", value |-> v]
Raised(e) == [kind |-> "raise", error |-> e]

\* ------------------------------------------------------- formatted strings

\* f"doc_{n}"
DocId(n) == "doc_" \o ToString(n)

\* f"Source {k}"
SourceLabel(k) == "Source " \o ToString(k)

\* The context part labelled with the loop index itself, f"[Source {i}]: {doc}".
ContextPartZeroBased(k, doc) == <<"[Source " \o ToString(k - 1) \o "]: ", doc>>

\* f"[Source {k}]: {doc}"
ContextPart(k, doc) == <<"[Source " \o ToString(k) \o "]: ", doc>>

\* "\n\n".join(parts)
RECURSIVE Join(_)
Join(parts) ==
    IF Len(parts) = 0 THEN <<>>
    ELSE IF Len(parts) = 1 THEN parts[1]
    ELSE parts[1] \o <<"\n\n">> \o Join(Tail(parts))

\* The user message with the question left out.
UserMessageNoQuestion(ctx, question) ==
    <<"Context:\n">> \o ctx \o
    <<"\n\nProvide a brief, conversational answer suitable for voice output.">>

\* The user message of the generation request.
UserMessage(ctx, question) ==
    <<"Context:\n">> \o ctx \o
    <<"\n\nQuestion: ", question,
      "\n\nProvide a brief, conversational answer suitable for voice output.">>

\* metadata.get('source', default)
MetaGet(m, key, default) == IF key \in DOMAIN m THEN m[key] ELSE default

\* ---------------------------------------------------------- the collection

\* collection.count()
collection_count(s) == Cardinality(s)

StoredIds(s) == {r.id : r \in s}

Range(f) == {f[i] : i \in DOMAIN f}

\* collection.add(documents, metadatas, ids): the set of possible outcomes.
\* Lists of unequal length and identifiers repeated inside the batch are
\* rejected. An identifier the collection already holds is either skipped
\* without an error or makes the whole call fail, depending on the store's
\* version; both outcomes are kept.
collection_add(s, documents, metas, idl) ==
    LET n == Len(documents)
        rec(i) == [id |-> idl[i], document |-> documents[i], metadata |-> metas[i]]
        fresh == {i \in 1..n : idl[i] \notin StoredIds(s)}
    IN  IF Len(metas) /= n \/ Len(idl) /= n
        THEN {[ok |-> FALSE, store |-> s, error |-> "ValueError"]}
        ELSE IF Cardinality(Range(idl)) /= n
        THEN {[ok |-> FALSE, store |-> s, error |-> "DuplicateIDError"]}
        ELSE IF fresh /= 1..n
        THEN {[ok |-> TRUE, store |-> s \cup {rec(i) : i \in fresh}, error |-> ""],
              [ok |-> FALSE, store |-> s, error |-> "IDAlreadyExistsError"]}
        ELSE {[ok |-> TRUE, store |-> s \cup {rec(i) : i \in 1..n}, error |-> ""]}

\* How close the embedding of a document lies to that of a question (cosine
\* space): the document on the question's subject is the nearest.
Similarity(question, document) ==
    IF <<question, document>> \in {<<"Where is the pool?", "pool hours">>,
                                   <<"When is check-in?", "check-in time">>}
    THEN 2 ELSE 1

\* Sequences of k distinct records of s in descending similarity to the
\* question, none of the records left out being nearer than one taken; equally
\* near records come in any order.
Rankings(s, question, k) ==
    {r \in [1..k -> s] :
        /\ \A i, j \in 1..k : i /= j => r[i] /= r[j]
        /\ \A i, j \in 1..k : i < j =>
              Similarity(question, r[i].document) >= Similarity(question, r[j].document)
        /\ \A x \in s \ {r[i] : i \in 1..k} : \A i \in 1..k :
              Similarity(question, r[i].document) >= Similarity(question, x.document)}

Min(a, b) == IF a <= b THEN a ELSE b

\* collection.query(query_texts=[question], n_results=n): the n nearest
\* documents, fewer when the collection holds fewer.
collection_query(s, question, n) ==
    Rankings(s, question, Min(n, collection_count(s)))

\* ------------------------------------------------------------ add_documents

\* Documents that calls in flight are still going to insert.
RECURSIVE Pending(_)
Pending(S) ==
    IF S = {} THEN 0
    ELSE LET p == CHOOSE x \in S : TRUE
         IN  (IF pc[p] \in {"ids", "add"} THEN Len(args[p].texts) ELSE 0)
             + Pending(S \ {p})

\* Lines 34-35: the default metadatas.
DefaultMetadatas(texts) == [i \in 1..Len(texts) |-> Meta("source", DocId(i - 1))]

\* add_documents(texts, metadatas) is entered; lines 34-35 run.
add_documents_call(p, texts, md) ==
    /\ pc[p] = "idle"
    /\ collection_count(store) + Pending(Callers) + Len(texts) <= MaxCount
    /\ args' = [args EXCEPT ![p] = [op |-> "add_documents", texts |-> texts,
                                    metadatas |-> md]]
    /\ metadatas' = [metadatas EXCEPT
                        ![p] = IF md.none THEN DefaultMetadatas(texts) ELSE md.val]
    /\ ids' = [ids EXCEPT ![p] = <<>>]
    /\ pc' = [pc EXCEPT ![p] = "ids"]
    /\ ret' = [ret EXCEPT ![p] = NoRet]
    /\ UNCHANGED <<store, context, sources, claudeCalls>>
    /\ UNCHANGED ttsVars

\* Line 37 with the count left out of the identifier.
NextIdFromZero(s, i) == DocId(i)

\* Line 37 with the item's offset left out of the identifier.
NextIdNoOffset(s, i) == DocId(Cardinality(s))

\* Line 37 numbering from one past the count.
NextIdOffByOne(s, i) == DocId(Cardinality(s) + i + 1)

\* Line 37, one item of the comprehension: the identifier of item i (0-based)
\* from the collection's count as it is when item i is reached.
NextId(s, i) == DocId(collection_count(s) + i)

add_documents_ids(p) ==
    /\ pc[p] = "ids"
    /\ LET i == Len(ids[p])
           done == i + 1 = Len(args[p].texts)
       IN  /\ ids' = [ids EXCEPT ![p] = Append(@, NextId(store, i))]
           /\ pc' = [pc EXCEPT ![p] = IF done THEN "add" ELSE "ids"]
    /\ UNCHANGED <<store, args, metadatas, context, sources, claudeCalls, ret>>
    /\ UNCHANGED ttsVars

\* Lines 39-44: the batch is handed to the collection.
add_documents_add(p) ==
    /\ pc[p] = "add"
    /\ \E out \in collection_add(store, args[p].texts, metadatas[p], ids[p]) :
          /\ store' = out.store
          /\ ret' = [ret EXCEPT ![p] = IF out.ok THEN Returned(None)
                                       ELSE Raised(out.error)]
    /\ pc' = [pc EXCEPT ![p] = "done"]
    /\ UNCHANGED <<args, metadatas, ids, context, sources, claudeCalls>>
    /\ UNCHANGED ttsVars

\* -------------------------------------------------------------------- query

\* query(question, n_results) is entered.
query_call(p, question, n) ==
    /\ pc[p] = "idle"
    /\ args' = [args EXCEPT ![p] = [op |-> "query", question |-> question,
                                    n_results |-> n]]
    /\ pc' = [pc EXCEPT ![p] = "retrieve"]
    /\ ret' = [ret EXCEPT ![p] = NoRet]
    /\ claudeCalls' = [claudeCalls EXCEPT ![p] = <<>>]
    /\ UNCHANGED <<store, metadatas, ids, context, sources>>
    /\ UNCHANGED ttsVars

\* Lines 59-68: the context parts and the source labels of a retrieval.
ContextParts(results) ==
    [i \in 1..Len(results) |-> ContextPart(i, results[i].document)]

\* Line 68 run once more after the loop.
SourcesOfExtra(results) ==
    [i \in 1..Len(results) + 1 |->
        IF i <= Len(results)
        THEN IF "source" \in DOMAIN results[i].metadata
             THEN results[i].metadata["source"] ELSE "Source " \o ToString(i)
        ELSE "Source " \o ToString(i)]

SourcesOf(results) ==
    [i \in 1..Len(results) |-> MetaGet(results[i].metadata, "source", SourceLabel(i))]

\* Line 73 with the test never taken.
IsEmptyContextNever(ctx) == FALSE

\* Line 73: `if not context`.
IsEmptyContext(ctx) == ctx = <<>>

\* Lines 74-77: the fallback dict.
FallbackResult == [answer |-> FallbackAnswer, sources |-> <<>>]

\* A collaborator's error caught and answered with the fallback dict.
PropagateAsFallback(error) == Returned(FallbackResult)

\* query has no try/except around its collaborators' calls (lines 53-56 and
\* 79-99): an error raised there leaves query as it is.
Propagate(error) == Raised(error)

\* Lines 53-77: retrieval, context assembly and the empty-context return;
\* or the collection raises.
query_retrieve(p) ==
    /\ pc[p] = "retrieve"
    /\ \/ \E results \in collection_query(store, args[p].question, args[p].n_results) :
             LET ctx == Join(ContextParts(results))
             IN  /\ context' = [context EXCEPT ![p] = ctx]
                 /\ sources' = [sources EXCEPT ![p] = SourcesOf(results)]
                 /\ IF IsEmptyContext(ctx)
                    THEN /\ ret' = [ret EXCEPT ![p] = Returned(FallbackResult)]
                         /\ pc' = [pc EXCEPT ![p] = "done"]
                    ELSE /\ pc' = [pc EXCEPT ![p] = "generate"]
                         /\ UNCHANGED ret
       \/ /\ ret' = [ret EXCEPT ![p] = Propagate("StoreError")]
          /\ pc' = [pc EXCEPT ![p] = "done"]
          /\ UNCHANGED <<context, sources>>
    /\ UNCHANGED <<store, args, metadatas, ids, claudeCalls>>
    /\ UNCHANGED ttsVars

\* The request of lines 79-99.
ClaudeRequest(ctx, question) ==
    [model |-> ModelId, max_tokens |-> MaxTokens, system |-> SystemPrompt,
     user |-> UserMessage(ctx, question)]

\* What the generation client hands back: a message whose first content block
\* carries the text.
ClaudeResponse(text) == [content |-> <<[text |-> text]>>]

\* str.strip() on the texts of the model: those the generation service may
\* produce, those the speech model may hear and those typed into the UI.
Strip(text) ==
    CASE text = "  The pool is on 5.\n" -> "The pool is on 5."
      [] text = " Where is the pool? " -> "Where is the pool?"
      [] text = " check-in time\n" -> "check-in time"
      [] text = "   " -> ""
      [] OTHER -> text

\* Lines 101-104 with the text stripped before it is returned.
QueryResultStripped(response, srcs) ==
    [answer |-> Strip(response.content[1].text), sources |-> srcs]

\* Lines 101-104: the returned dict, response.content[0].text and the sources.
QueryResult(response, srcs) == [answer |-> response.content[1].text, sources |-> srcs]

\* Lines 79-104: the generation request and the return of its text; or the
\* generation client raises.
query_generate(p) ==
    /\ pc[p] = "generate"
    /\ LET request == ClaudeRequest(context[p], args[p].question)
       IN  \/ \E text \in Answers :
                LET response == ClaudeResponse(text)
                IN  /\ claudeCalls' = [claudeCalls EXCEPT ![p] =
                            Append(@, [request |-> request, response |-> Some(response),
                                       error |-> ""])]
                    /\ ret' = [ret EXCEPT ![p] =
                            Returned(QueryResult(response, sources[p]))]
           \/ /\ claudeCalls' = [claudeCalls EXCEPT ![p] =
                       Append(@, [request |-> request, response |-> None,
                                  error |-> "GenerationError"])]
              /\ ret' = [ret EXCEPT ![p] = Propagate("GenerationError")]
    /\ pc' = [pc EXCEPT ![p] = "done"]
    /\ UNCHANGED <<store, args, metadatas, ids, context, sources>>
    /\ UNCHANGED ttsVars

\* -------------------------------------------------------------------- count

\* count() that empties the collection it counts.
count_clearing(p) ==
    /\ pc[p] = "idle"
    /\ args' = [args EXCEPT ![p] = [op |-> "count"]]
    /\ ret' = [ret EXCEPT ![p] = Returned(collection_count(store))]
    /\ pc' = [pc EXCEPT ![p] = "done"]
    /\ store' = {}
    /\ UNCHANGED <<metadatas, ids, context, sources, claudeCalls>>
    /\ UNCHANGED ttsVars

\* count(): lines 106-108.
count(p) ==
    /\ pc[p] = "idle"
    /\ args' = [args EXCEPT ![p] = [op |-> "count"]]
    /\ ret' = [ret EXCEPT ![p] = Returned(collection_count(store))]
    /\ pc' = [pc EXCEPT ![p] = "done"]
    /\ UNCHANGED <<store, metadatas, ids, context, sources, claudeCalls>>
    /\ UNCHANGED ttsVars

\* The call is over: its frame is dropped and the caller is free again.
call_return(p) ==
    /\ pc[p] = "done"
    /\ pc' = [pc EXCEPT ![p] = "idle"]
    /\ args' = [args EXCEPT ![p] = NoArgs]
    /\ metadatas' = [metadatas EXCEPT ![p] = <<>>]
    /\ ids' = [ids EXCEPT ![p] = <<>>]
    /\ context' = [context EXCEPT ![p] = <<>>]
    /\ sources' = [sources EXCEPT ![p] = <<>>]
    /\ claudeCalls' = [claudeCalls EXCEPT ![p] = <<>>]
    /\ ret' = [ret EXCEPT ![p] = NoRet]
    /\ UNCHANGED store
    /\ UNCHANGED ttsVars

\* ------------------------------------------------------------ TextToSpeech

\* Voice names handed to the constructor and to set_voice: the 24 of the
\* table, a name the table lacks, and the empty string.
TableNames ==
    {"Rachel", "Drew", "Clyde", "Paul", "Domi", "Dave", "Fin", "Sarah",
     "Antoni", "Thomas", "Charlie", "George", "Emily", "Elli", "Callum",
     "Patrick", "Harry", "Liam", "Dorothy", "Josh", "Arnold", "Charlotte",
     "Alice", "Matilda"}
VoiceNames == TableNames \cup {"NonexistentVoice", ""}

\* Lines 56-81: the voices dict.
voices ==
    ("Rachel" :> "21m00Tcm4TlvDq8ikWAM") @@ ("Drew" :> "29vD33N1CtxCmqQRPOHJ") @@
    ("Clyde" :> "2EiwWnXFnvU5JabPnv8n") @@ ("Paul" :> "5Q0t7uMcjvnagumLfvZi") @@
    ("Domi" :> "AZnzlk1XvdvUeBnXmlld") @@ ("Dave" :> "CYw3kZ02Hs0563khs1Fj") @@
    ("Fin" :> "D38z5RcWu1voky8WS1ja") @@ ("Sarah" :> "EXAVITQu4vr4xnSDxMaL") @@
    ("Antoni" :> "ErXwobaYiN019PkySvjV") @@ ("Thomas" :> "GBv7mTt0atIp3Br8iCZE") @@
    ("Charlie" :> "IKne3meq5aSn9XLyUdCD") @@ ("George" :> "JBFqnCBsd6RMkjVDRZzb") @@
    ("Emily" :> "LcfcDJNUP1GQjkzn1xUU") @@ ("Elli" :> "MF3mGyEYCl7XYWbV9V6O") @@
    ("Callum" :> "N2lVS1w4EtoT3dr4eOWO") @@ ("Patrick" :> "ODq5zmih8GrVes37Dizd") @@
    ("Harry" :> "SOYHLrjzK2X1ezoPC6cr") @@ ("Liam" :> "TX3LPaxmHKxFdv7VOQHJ") @@
    ("Dorothy" :> "ThT5KcBeYPX3keUQqHPh") @@ ("Josh" :> "TxGEqnHWrfWFTfGW9XjX") @@
    ("Arnold" :> "VR6AewLTigWG4xSOukaG") @@ ("Charlotte" :> "XB0fDUnXU5powFXDhCwa") @@
    ("Alice" :> "Xb7hH8MSUJpSbSDYk0k2") @@ ("Matilda" :> "XrExE9yKIg1WjnnlVkGX")

\* Line 82 with the lookup falling back to the table's second entry.
get_voice_id_wrong_default(voice_name) ==
    IF voice_name \in DOMAIN voices THEN voices[voice_name] ELSE voices["Drew"]

\* _get_voice_id, line 82: voices.get(voice_name, voices["Rachel"]).
get_voice_id(voice_name) ==
    IF voice_name \in DOMAIN voices THEN voices[voice_name] ELSE voices["Rachel"]

\* Line 38: os.path.join(tempfile.gettempdir(), "response.mp3").
TempPath == "/tmp/response.mp3"
Paths == {TempPath, "/out/answer.mp3"}
PathArgs == {None} \cup {Some(path) : path \in Paths}

\* The chunk streams the synthesis service may send.
AudioStreams == {<<"ID3a">>, <<"ID3b", "b2">>}

\* What the loop of lines 49-50 leaves in a file opened with "wb".
RECURSIVE Written(_)
Written(chunks) ==
    IF chunks = <<>> THEN "" ELSE Head(chunks) \o Written(Tail(chunks))

\* The file opened with "ab": the chunks come after what the file held.
WriteFileAppend(old, received) ==
    Some((IF old.none THEN "" ELSE old.val) \o Written(received))

\* Lines 48-50: the file opened with "wb" holds the chunks written to it and
\* nothing of what it held before.
WriteFile(old, received) == Some(Written(received))

\* The chunks received before the stream broke off: a proper prefix of it.
BrokenStreams ==
    UNION {{SubSeq(stream, 1, k) : k \in 0..Len(stream) - 1} : stream \in AudioStreams}

\* The request of lines 40-45 asking for the default voice whatever
\* self.voice is.
ConvertRequestDefaultVoice(text, voice_name) ==
    [text |-> text, voice_id |-> get_voice_id("Rachel"),
     model_id |-> "eleven_multilingual_v2", output_format |-> "mp3_44100_128"]

\* The request of lines 40-45.
ConvertRequest(text, voice_name) ==
    [text |-> text, voice_id |-> get_voice_id(voice_name),
     model_id |-> "eleven_multilingual_v2", output_format |-> "mp3_44100_128"]

\* The values ELEVENLABS_API_KEY may have: unset, empty, a key.
ApiKeys == {None, Some(""), Some("sk_test_key")}

\* Line 20 rejecting only the unset variable.
MissingKeyUnsetOnly(key) == key.none

\* Line 20: not api_key, for the value of os.environ.get(...).
MissingKey(key) == key.none \/ key.val = ""

\* What stands for self.voice where no instance came to exist.
NoVoice == "<no instance>"

\* A method can be called on an instance only: the constructor returned.
HasInstance == initRet.kind = "value"

\* speak(text, output_path), lines 36-52: the synthesis request, then the
\* file written and its path returned. The synthesis client may raise: in the
\* call itself, before the file is opened, or while its chunks are iterated,
\* which leaves the file with the chunks received until then.
speak(text, output_path) ==
    /\ HasInstance
    /\ ttsCall' = [op |-> "speak", text |-> text, output_path |-> output_path]
    /\ convertCalls' = <<ConvertRequest(text, voice)>>
    /\ LET path == IF output_path.none THEN TempPath ELSE output_path.val
       IN  \/ \E stream \in AudioStreams :
                /\ audio' = stream
                /\ files' = [files EXCEPT ![path] = WriteFile(files[path], stream)]
                /\ speakRet' = Returned(path)
           \/ /\ speakRet' = Raised("SynthesisError")
              /\ audio' = <<>>
              /\ UNCHANGED files
           \/ \E received \in BrokenStreams :
                /\ audio' = received
                /\ files' = [files EXCEPT ![path] = WriteFile(files[path], received)]
                /\ speakRet' = Raised("SynthesisError")
    /\ UNCHANGED <<apiKey, initRet, client, voice>>
    /\ UNCHANGED kbVars

\* set_voice(voice), lines 84-86.
set_voice(v) ==
    /\ HasInstance
    /\ ttsCall' = [op |-> "set_voice", voice |-> v]
    /\ voice' = v
    /\ UNCHANGED <<apiKey, initRet, client, convertCalls, audio, files, speakRet>>
    /\ UNCHANGED kbVars

\* ------------------------------------------------------------------ app.py

\* The UI threads running process_voice and add_document on the shared kb.
PvCaller == "t1"
AdCaller == "t2"

\* What the audio component hands to process_voice: nothing, or a file path.
AudioPaths == {"/tmp/gradio/question.wav"}
AudioArgs == {None} \cup {Some(a) : a \in AudioPaths}

\* What the speech model may hear in a recording.
WhisperTexts == {" Where is the pool? ", "When is check-in?", "", "   "}

\* What may be typed into the document box.
DocTexts == {"pool hours", " check-in time\n", "   "}

\* Two of the voices the dropdown offers.
AppVoices == {"Rachel", "Drew"}

NoAudioMessage == "Please record a question first."
NothingHeardMessage == "I couldn't hear anything. Please try again."

\* SpeechToText.transcribe, line 37: result["text"].strip().
stt_transcribe(text) == Strip(text)

\* The blank test never taken.
IsBlankNever(text) == FALSE

\* `not text.strip()`, app.py lines 36 and 55.
IsBlank(text) == Strip(text) = ""

\* The triple process_voice returns.
PvResult(t, a, audio_output) == <<t, a, audio_output>>

\* Line 42 with the answer stripped.
AnswerOfStripped(result) == Strip(result.answer)

\* Line 42: answer = result["answer"].
AnswerOf(result) == result.answer

\* process_voice(audio_path) is entered; lines 28-29.
process_voice_call(audio_path) ==
    /\ pvPc = "idle"
    /\ pvArgs' = [audio_path |-> audio_path]
    /\ calls' = <<>>
    /\ IF audio_path.none
       THEN /\ pvRet' = Returned(PvResult("", NoAudioMessage, None))
            /\ pvPc' = "done"
       ELSE /\ pvRet' = NoRet
            /\ pvPc' = "transcribe"
    /\ UNCHANGED <<whisperText, transcription, answer, adPc, adRet>>
    /\ UNCHANGED <<kbVars, ttsVars>>

\* Lines 33-37: stt.transcribe(audio_path) and the blank test; or the speech
\* model raises.
process_voice_transcribe ==
    /\ pvPc = "transcribe"
    /\ calls' = Append(calls, [fn |-> "transcribe", arg |-> pvArgs.audio_path.val])
    /\ \/ \E text \in WhisperTexts :
             /\ whisperText' = Some(text)
             /\ transcription' = stt_transcribe(text)
             /\ IF IsBlank(stt_transcribe(text))
                THEN /\ pvRet' = Returned(PvResult("", NothingHeardMessage, None))
                     /\ pvPc' = "done"
                ELSE /\ pvRet' = NoRet
                     /\ pvPc' = "query"
       \/ /\ pvRet' = Raised("TranscriptionError")
          /\ pvPc' = "done"
          /\ UNCHANGED <<whisperText, transcription>>
    /\ UNCHANGED <<pvArgs, answer, adPc, adRet>>
    /\ UNCHANGED <<kbVars, ttsVars>>

\* Line 41: kb.query(transcription) is entered, n_results at its default.
process_voice_query ==
    /\ pvPc = "query"
    /\ query_call(PvCaller, transcription, DefaultNResults)
    /\ calls' = Append(calls, [fn |-> "query", arg |-> transcription])
    /\ pvPc' = "in_query"
    /\ UNCHANGED <<pvArgs, whisperText, transcription, answer, pvRet, adPc, adRet>>

\* Lines 41-42: kb.query has ended; its answer is taken, or its error leaves
\* process_voice.
process_voice_answer ==
    /\ pvPc = "in_query"
    /\ pc[PvCaller] = "done"
    /\ IF ret[PvCaller].kind = "raise"
       THEN /\ pvRet' = Raised(ret[PvCaller].error)
            /\ pvPc' = "done"
            /\ UNCHANGED answer
       ELSE /\ answer' = AnswerOf(ret[PvCaller].value)
            /\ pvPc' = "speak"
            /\ UNCHANGED pvRet
    /\ call_return(PvCaller)
    /\ UNCHANGED <<pvArgs, whisperText, transcription, calls, adPc, adRet>>

\* Lines 47-50: tts.speak(answer) and the return of the triple; or speak
\* raises.
process_voice_speak ==
    /\ pvPc = "speak"
    /\ speak(answer, None)
    /\ calls' = Append(calls, [fn |-> "speak", arg |-> answer])
    /\ pvRet' = IF speakRet'.kind = "value"
                THEN Returned(PvResult(transcription, answer, Some(speakRet'.value)))
                ELSE Raised(speakRet'.error)
    /\ pvPc' = "done"
    /\ UNCHANGED <<pvArgs, whisperText, transcription, answer, adPc, adRet>>

\* process_voice is over: its frame is dropped.
process_voice_return ==
    /\ pvPc = "done"
    /\ pvPc' = "idle"
    /\ pvArgs' = NoArgs
    /\ whisperText' = None
    /\ transcription' = ""
    /\ answer' = ""
    /\ calls' = <<>>
    /\ pvRet' = NoRet
    /\ UNCHANGED <<adPc, adRet>>
    /\ UNCHANGED <<kbVars, ttsVars>>

\* add_document(text) is entered, lines 55-58: the blank test, then
\* kb.add_documents([text.strip()]) is entered.
add_document_call(text) ==
    /\ adPc = "idle"
    /\ IF IsBlank(text)
       THEN /\ adRet' = Returned(<<"Please enter some text to add.">>)
            /\ adPc' = "done"
            /\ UNCHANGED <<kbVars, ttsVars>>
       ELSE /\ add_documents_call(AdCaller, <<Strip(text)>>, None)
            /\ adRet' = NoRet
            /\ adPc' = "adding"
    /\ UNCHANGED <<pvPc, pvArgs, whisperText, transcription, answer, calls, pvRet>>

\* Line 58: kb.add_documents has ended; its error leaves add_document.
add_document_added ==
    /\ adPc = "adding"
    /\ pc[AdCaller] = "done"
    /\ IF ret[AdCaller].kind = "raise"
       THEN /\ adRet' = Raised(ret[AdCaller].error)
            /\ adPc' = "done"
       ELSE /\ adPc' = "count"
            /\ UNCHANGED adRet
    /\ call_return(AdCaller)
    /\ UNCHANGED <<pvPc, pvArgs, whisperText, transcription, answer, calls, pvRet>>

\* Line 59: kb.count().
add_document_count ==
    /\ adPc = "count"
    /\ count(AdCaller)
    /\ adPc' = "counted"
    /\ UNCHANGED <<pvPc, pvArgs, whisperText, transcription, answer, calls, pvRet, adRet>>

\* Line 59: the message with the count in it (its leading check mark left
\* out).
add_document_message ==
    /\ adPc = "counted"
    /\ pc[AdCaller] = "done"
    /\ adRet' = Returned(<<"Added document. Knowledge base now has ",
                           ToString(ret[AdCaller].value), " documents.">>)
    /\ adPc' = "done"
    /\ call_return(AdCaller)
    /\ UNCHANGED <<pvPc, pvArgs, whisperText, transcription, answer, calls, pvRet>>

\* add_document is over.
add_document_return ==
    /\ adPc = "done"
    /\ adPc' = "idle"
    /\ adRet' = NoRet
    /\ UNCHANGED <<pvPc, pvArgs, whisperText, transcription, answer, calls, pvRet>>
    /\ UNCHANGED <<kbVars, ttsVars>>

\* change_voice(voice_name), lines 62-65.
change_voice(voice_name) ==
    /\ set_voice(voice_name)
    /\ UNCHANGED appVars

\* ------------------------------------------------------------ specification

\* A fresh collection and no call in progress.
KbInit ==
    /\ store = {}
    /\ pc = [p \in Callers |-> "idle"]
    /\ args = [p \in Callers |-> NoArgs]
    /\ metadatas = [p \in Callers |-> <<>>]
    /\ ids = [p \in Callers |-> <<>>]
    /\ context = [p \in Callers |-> <<>>]
    /\ sources = [p \in Callers |-> <<>>]
    /\ claudeCalls = [p \in Callers |-> <<>>]
    /\ ret = [p \in Callers |-> NoRet]

\* TextToSpeech(voice) constructed in an environment whose
\* ELEVENLABS_API_KEY is key, lines 12-23: the key is checked first, then the
\* client is created and the voice kept. Nothing spoken, no file written.
tts_init(key, v) ==
    /\ apiKey = key
    /\ ttsCall = [op |-> "__init__", voice |-> v]
    /\ IF MissingKey(key)
       THEN /\ initRet = Raised("ValueError")
            /\ client = None
            /\ voice = NoVoice
       ELSE /\ initRet = Returned(None)
            /\ client = Some([api_key |-> key.val])
            /\ voice = v
    /\ convertCalls = <<>>
    /\ audio = <<>>
    /\ files = [path \in Paths |-> None]
    /\ speakRet = NoRet

\* TextToSpeech(voice) constructed with a key in the environment.
TtsInit(v) == tts_init(Some("sk_test_key"), v)

\* No handler running.
AppInit ==
    /\ pvPc = "idle"
    /\ pvArgs = NoArgs
    /\ whisperText = None
    /\ transcription = ""
    /\ answer = ""
    /\ calls = <<>>
    /\ pvRet = NoRet
    /\ adPc = "idle"
    /\ adRet = NoRet

\* The application's start: app.py constructs TextToSpeech(voice="Rachel").
Init == KbInit /\ TtsInit("Rachel") /\ AppInit

Next ==
    \E p \in Callers :
        \/ (\E t \in TextBatches, m \in MetaArgs : add_documents_call(p, t, m))
             /\ UNCHANGED appVars
        \/ add_documents_ids(p) /\ UNCHANGED appVars
        \/ add_documents_add(p) /\ UNCHANGED appVars
        \/ (\E q \in Questions, n \in NResults : query_call(p, q, n))
             /\ UNCHANGED appVars
        \/ query_retrieve(p) /\ UNCHANGED appVars
        \/ query_generate(p) /\ UNCHANGED appVars
        \/ count(p) /\ UNCHANGED appVars
        \/ call_return(p) /\ UNCHANGED appVars

\* Callers sharing the KnowledgeBase, their calls interleaving freely.
Spec == Init /\ [][Next]_vars

\* The calls serialized: a call starts only when no other is in progress.
Quiet == \A p \in Callers : pc[p] = "idle"

SeqNext ==
    \E p \in Callers :
        \/ /\ Quiet
           /\ \E t \in TextBatches, m \in MetaArgs : add_documents_call(p, t, m)
           /\ UNCHANGED appVars
        \/ add_documents_ids(p) /\ UNCHANGED appVars
        \/ add_documents_add(p) /\ UNCHANGED appVars
        \/ /\ Quiet
           /\ \E q \in Questions, n \in NResults : query_call(p, q, n)
           /\ UNCHANGED appVars
        \/ query_retrieve(p) /\ UNCHANGED appVars
        \/ query_generate(p) /\ UNCHANGED appVars
        \/ Quiet /\ count(p) /\ UNCHANGED appVars
        \/ call_return(p) /\ UNCHANGED appVars

SeqSpec == Init /\ [][SeqNext]_vars

\* One TextToSpeech construction, with any voice name and any state of the
\* key in the environment, and the instance's methods called one after the
\* other.
TtsNext ==
    \/ (\E v \in VoiceNames : set_voice(v)) /\ UNCHANGED appVars
    \/ (\E text \in Answers, path \in PathArgs : speak(text, path))
         /\ UNCHANGED appVars

TtsSpecInit ==
    KbInit /\ AppInit /\ \E key \in ApiKeys, v \in VoiceNames : tts_init(key, v)

TtsSpec == TtsSpecInit /\ [][TtsNext]_vars

\* The UI: process_voice on one thread, add_document on another, and
\* change_voice, over the shared kb and tts.
AppNext ==
    \/ \E a \in AudioArgs : process_voice_call(a)
    \/ process_voice_transcribe
    \/ process_voice_query
    \/ query_retrieve(PvCaller) /\ UNCHANGED appVars
    \/ query_generate(PvCaller) /\ UNCHANGED appVars
    \/ process_voice_answer
    \/ process_voice_speak
    \/ process_voice_return
    \/ \E text \in DocTexts : add_document_call(text)
    \/ add_documents_ids(AdCaller) /\ UNCHANGED appVars
    \/ add_documents_add(AdCaller) /\ UNCHANGED appVars
    \/ add_document_added
    \/ add_document_count
    \/ add_document_message
    \/ add_document_return
    \/ \E v \in AppVoices : change_voice(v)

AppSpec == Init /\ [][AppNext]_vars

\* ------------------------------------------------------------------ claims

IsAdd(p) == args[p].op = "add_documents"
IsQuery(p) == args[p].op = "query"
Completed(p) == pc[p] = "done" /\ ret[p].kind = "value"

\* C1: under serialized calls, from every store state they reach, a completed
\* add_documents(texts) call (metadatas omitted or of the same length) leaves
\* count() exactly len(texts) larger than it was before the call: the count
\* does not move from the call's entry up to its insertion, and the insertion
\* raises it by len(texts).
C1_AddRaisesCountByLen ==
    [][\A p \in Callers :
          /\ (pc'[p] \in {"ids", "add"})
                => collection_count(store') = collection_count(store)
          /\ (pc[p] = "add" /\ pc'[p] = "done" /\ ret'[p].kind = "value")
                => collection_count(store')
                     = collection_count(store) + Len(args[p].texts)]_vars

\* A two-text batch with explicit metadatas has completed on a store that held
\* one document before.
C1_Witness ==
    \E p \in Callers :
        /\ Completed(p) /\ IsAdd(p)
        /\ Len(args[p].texts) = 2
        /\ ~args[p].metadatas.none
        /\ collection_count(store) = 3

\* C2: a query whose retrieval brought no document returns the fixed fallback
\* answer with an empty sources list, and its call log of the generation
\* client stays empty; no call with an empty retrieval ever stands before the
\* generation request.
C2_EmptyRetrievalFallsBack ==
    \A p \in Callers :
        (IsQuery(p) /\ pc[p] \in {"generate", "done"} /\ ret[p].kind /= "raise"
           /\ sources[p] = <<>>)
        => /\ pc[p] = "done"
           /\ ret[p].kind = "value"
           /\ ret[p].value.answer = FallbackAnswer
           /\ ret[p].value.sources = <<>>
           /\ claudeCalls[p] = <<>>

\* A query on the empty store has returned.
C2_Witness ==
    \E p \in Callers :
        /\ Completed(p) /\ IsQuery(p)
        /\ store = {}
        /\ ret[p].value.answer = FallbackAnswer

Contains(msg, piece) == \E i \in 1..Len(msg) : msg[i] = piece

\* C3: a query call (n >= 1) whose retrieval ran on a store holding at least
\* one document goes on to the generation request; the generation client is
\* not called before the retrieval, and by the end of the call it has been
\* called exactly once, with the system instruction and a user message that
\* contains the question.
C3_GeneratesExactlyOnce ==
    /\ [](\A p \in Callers :
            /\ pc[p] \in {"retrieve", "generate"} => claudeCalls[p] = <<>>
            /\ (pc[p] = "done" /\ IsQuery(p) /\ sources[p] /= <<>>)
                 => /\ Len(claudeCalls[p]) = 1
                    /\ claudeCalls[p][1].request.system = SystemPrompt
                    /\ Contains(claudeCalls[p][1].request.user, args[p].question))
    /\ [][\A p \in Callers :
            (pc[p] = "retrieve" /\ pc'[p] /= "retrieve" /\ store /= {}
               /\ ret'[p].kind /= "raise")
            => pc'[p] = "generate" /\ sources'[p] /= <<>>]_vars

\* A query on a store of two documents has returned a generated answer.
C3_Witness ==
    \E p \in Callers :
        /\ Completed(p) /\ IsQuery(p)
        /\ collection_count(store) = 2
        /\ Len(claudeCalls[p]) = 1
        /\ ret[p].value.answer \in Answers

\* C4: the sources list of a query(question, n) is never longer than n nor
\* than the number of stored documents, the returned list is the collected
\* one, and a retrieval on a store holding fewer than n documents collects
\* exactly as many labels as the store holds documents.
C4_SourcesBounded ==
    /\ [](\A p \in Callers :
            /\ IsQuery(p)
                 => /\ Len(sources[p]) <= args[p].n_results
                    /\ Len(sources[p]) <= collection_count(store)
            /\ (IsQuery(p) /\ Completed(p))
                 => /\ ret[p].value.sources = sources[p]
                    /\ Len(ret[p].value.sources)
                         <= Min(args[p].n_results, collection_count(store)))
    /\ [][\A p \in Callers :
            (pc[p] = "retrieve" /\ pc'[p] /= "retrieve" /\ ret'[p].kind /= "raise"
               /\ collection_count(store) < args[p].n_results)
            => Len(sources'[p]) = collection_count(store)]_vars

\* A query asking for three documents returned the two the store holds; and
\* one asking for one returned one of three.
C4_Witness ==
    \E p \in Callers :
        /\ Completed(p) /\ IsQuery(p)
        /\ args[p].n_results = 3
        /\ collection_count(store) = 2
        /\ Len(ret[p].value.sources) = 2

\* The record stored under identifier id, if any.
StoredUnder(id) == {r \in store : r.id = id}

\* The count before a serialized add_documents call that has just completed.
CountBefore(p) == collection_count(store) - Len(args[p].texts)

\* C5: after a completed add_documents call without metadatas, on any store
\* state, the i-th item's stored source label is the placeholder of its
\* offset i and the pre-batch count c together, doc_<c+i>.
C5_DefaultLabelFollowsCount ==
    \A p \in Callers :
        (Completed(p) /\ IsAdd(p) /\ args[p].metadatas.none)
        => \A i \in 1..Len(args[p].texts) :
              \A r \in StoredUnder(ids[p][i]) :
                  r.metadata["source"] = DocId(CountBefore(p) + i - 1)

\* C6: a serialized add_documents(texts) call on a store of count c stores
\* its i-th text (0-based) under doc_<c+i>, with that text and that item's
\* metadata record (the given one, or the default one when none was given)
\* and nothing else under that identifier.
C6_StoredUnderCountPlusOffset ==
    \A p \in Callers :
        (Completed(p) /\ IsAdd(p))
        => \A i \in 1..Len(args[p].texts) :
              StoredUnder(DocId(CountBefore(p) + i - 1))
                = {[id |-> DocId(CountBefore(p) + i - 1),
                    document |-> args[p].texts[i],
                    metadata |-> IF args[p].metadatas.none
                                 THEN Meta("source", DocId(i - 1))
                                 ELSE args[p].metadatas.val[i]]}

\* A second batch, of two different texts with their own metadatas, has been
\* stored on top of one document.
C6_Witness ==
    \E p \in Callers :
        /\ Completed(p) /\ IsAdd(p)
        /\ CountBefore(p) = 1
        /\ ~args[p].metadatas.none
        /\ Len(args[p].texts) = 2
        /\ args[p].texts[1] /= args[p].texts[2]

\* C7: after any sequence of serialized add_documents calls on an initially
\* empty store, no two stored documents share an identifier and the
\* identifiers are exactly doc_0 .. doc_<count()-1>.
C7_IdsAreZeroToCount ==
    /\ Cardinality(StoredIds(store)) = collection_count(store)
    /\ StoredIds(store) = {DocId(k) : k \in 0..(collection_count(store) - 1)}

\* Three documents stored by three calls.
C7_Witness ==
    /\ collection_count(store) = 3
    /\ \E p \in Callers :
          Completed(p) /\ IsAdd(p) /\ Len(args[p].texts) = 1

\* A call that has computed an identifier and not yet inserted its batch.
HoldsId(p) == IsAdd(p) /\ pc[p] \in {"ids", "add"} /\ Len(ids[p]) >= 1

\* C8: nothing keeps two add_documents calls apart between reading the count
\* and writing: whenever two calls both hold an identifier computed from a
\* store that nobody has written to yet, both hold doc_0 for their first
\* document.
C8_RacingCallsShareIds ==
    \A p, q \in Callers :
        (p /= q /\ HoldsId(p) /\ HoldsId(q) /\ store = {})
        => ids[p][1] = DocId(0) /\ ids[q][1] = DocId(0)

\* Two calls have both completed having assigned one identifier to two
\* different documents.
C8_Witness ==
    \E p, q \in Callers :
        /\ p /= q
        /\ Completed(p) /\ IsAdd(p)
        /\ Completed(q) /\ IsAdd(q)
        /\ \E i \in 1..Len(ids[p]), j \in 1..Len(ids[q]) :
              /\ ids[p][i] = ids[q][j]
              /\ args[p].texts[i] /= args[q].texts[j]

\* C9: a query that returns on the generation path returns as answer the very
\* text the generation client produced for this call, and as sources the
\* labels collected from this call's retrieval.
C9_AnswerVerbatim ==
    \A p \in Callers :
        (Completed(p) /\ IsQuery(p) /\ claudeCalls[p] /= <<>>)
        => /\ ~claudeCalls[p][1].response.none
           /\ ret[p].value.answer = claudeCalls[p][1].response.val.content[1].text
           /\ ret[p].value.sources = sources[p]
           /\ sources[p] /= <<>>

\* The generation client answered with outer whitespace and the call returned.
C9_Witness ==
    \E p \in Callers :
        /\ Completed(p) /\ IsQuery(p)
        /\ claudeCalls[p] /= <<>>
        /\ ret[p].value.answer = "  The pool is on 5.\n"
        /\ Len(ret[p].value.sources) = 2

\* C10: _get_voice_id gives the 24 names of the table 24 different
\* identifiers, and gives every name the table lacks, the empty string among
\* them, the identifier of Rachel; so for the current voice, whatever name it
\* was set to, the identifier is Rachel's when the table lacks the name and
\* otherwise one no other table name shares.
C10_VoiceIdLookup ==
    /\ DOMAIN voices = TableNames
    /\ Cardinality(TableNames) = 24
    /\ Cardinality({get_voice_id(n) : n \in TableNames}) = 24
    /\ \A n \in VoiceNames \ TableNames : get_voice_id(n) = "21m00Tcm4TlvDq8ikWAM"
    /\ get_voice_id("") = get_voice_id("Rachel")
    /\ IF voice \in TableNames
       THEN \A n \in TableNames \ {voice} : get_voice_id(n) /= get_voice_id(voice)
       ELSE get_voice_id(voice) = get_voice_id("Rachel")
    /\ \A i \in 1..Len(convertCalls) :
          convertCalls[i].voice_id \in {get_voice_id(n) : n \in TableNames}

\* With the voice set to the empty string, a speak call has asked for
\* Rachel's voice.
C10_Witness ==
    /\ voice = ""
    /\ convertCalls /= <<>>
    /\ convertCalls[Len(convertCalls)].voice_id = "21m00Tcm4TlvDq8ikWAM"

\* C11: whatever set_voice and speak calls came before, the current voice is
\* the name given to the most recent set_voice call, or the constructor's
\* while set_voice was never called; every speak call leaves the current voice
\* as it was and makes one synthesis request, for its own text and for the
\* identifier of the current voice.
C11_SpeakUsesCurrentVoice ==
    /\ []((HasInstance /\ ttsCall.op \in {"__init__", "set_voice"})
            => voice = ttsCall.voice)
    /\ [][ttsCall'.op = "speak"
            => /\ voice' = voice
               /\ Len(convertCalls') = 1
               /\ convertCalls'[1].text = ttsCall'.text
               /\ convertCalls'[1].voice_id = get_voice_id(voice)]_vars

\* A speak call has asked for Drew's voice and written a second file, so an
\* earlier speak call came before it.
C11_Witness ==
    /\ ttsCall.op = "speak"
    /\ voice = "Drew"
    /\ convertCalls[1].voice_id = "29vD33N1CtxCmqQRPOHJ"
    /\ \A path \in Paths : ~files[path].none

\* C12: when ELEVENLABS_API_KEY is unset or empty the constructor raises
\* ValueError and no synthesis client was created; no speak and no set_voice
\* call ever follows: the constructor stays the last call, no synthesis
\* request was made, nothing was returned by speak and no file was written.
C12_NoKeyNoInstance ==
    (apiKey.none \/ apiKey.val = "")
    => /\ initRet.kind = "raise"
       /\ initRet.error = "ValueError"
       /\ client.none
       /\ ttsCall.op = "__init__"
       /\ convertCalls = <<>>
       /\ speakRet.kind = "none"
       /\ \A path \in Paths : files[path].none

\* The constructor has raised for a key that is set and empty.
C12_Witness ==
    /\ ~apiKey.none
    /\ apiKey.val = ""
    /\ initRet.kind = "raise"
    /\ client.none

\* C13: a query call that ends in an error ends in the error its failed
\* collaborator raised: the collection's, with the generation client never
\* called, or the generation client's, which was called once, gave no response
\* and raised that very error. A generation call that raised is never answered
\* with a result dict; a retrieval step on a non-empty store that ends the call
\* ends it with the collection's error; and a call that has ended takes no
\* further step but its return, so no collaborator is called again.
C13_CollaboratorErrorPropagates ==
    /\ [](\A p \in Callers :
            /\ (IsQuery(p) /\ ret[p].kind = "raise")
                 => /\ pc[p] = "done"
                    /\ \/ /\ ret[p].error = "StoreError"
                          /\ claudeCalls[p] = <<>>
                       \/ /\ ret[p].error = "GenerationError"
                          /\ Len(claudeCalls[p]) = 1
                          /\ claudeCalls[p][1].response.none
                          /\ claudeCalls[p][1].error = ret[p].error
            /\ (IsQuery(p) /\ claudeCalls[p] /= <<>> /\ claudeCalls[p][1].response.none)
                 => ret[p].kind = "raise")
    /\ [][\A p \in Callers :
            /\ (IsQuery(p) /\ pc[p] = "retrieve" /\ pc'[p] = "done" /\ store /= {})
                 => /\ ret'[p].kind = "raise"
                    /\ ret'[p].error = "StoreError"
                    /\ claudeCalls'[p] = <<>>
            /\ (IsQuery(p) /\ pc[p] = "done")
                 => /\ pc'[p] \in {"done", "idle"}
                    /\ pc'[p] = "done" => (ret'[p] = ret[p]
                                            /\ claudeCalls'[p] = claudeCalls[p])]_vars

\* One query has ended in the collection's error on a non-empty store, and
\* another in the generation client's error after its one request.
C13_Witness ==
    \E p, q \in Callers :
        /\ IsQuery(p) /\ pc[p] = "done" /\ ret[p].kind = "raise"
        /\ ret[p].error = "StoreError"
        /\ store /= {}
        /\ IsQuery(q) /\ pc[q] = "done" /\ ret[q].kind = "raise"
        /\ ret[q].error = "GenerationError"
        /\ Len(claudeCalls[q]) = 1

\* C14: count() and query() only read the collection: in every reachable
\* state, every step of a count call or of a query call (its entry, its
\* retrieval with the fallback return, its generation, its return) leaves the
\* stored documents, identifiers and metadata, and so the count, as they were.
C14_ReadsLeaveStoreAlone ==
    [][\A p \in Callers :
          (/\ pc'[p] /= pc[p]
           /\ \/ args[p].op \in {"count", "query"}
              \/ args'[p].op \in {"count", "query"})
          => /\ store' = store
             /\ collection_count(store') = collection_count(store)]_vars

\* On a store of two documents a query has returned a generated answer and a
\* count call has returned 2.
C14_Witness ==
    \E p, q \in Callers :
        /\ Completed(p) /\ IsQuery(p)
        /\ claudeCalls[p] /= <<>>
        /\ args[q].op = "count" /\ pc[q] = "done"
        /\ ret[q].value = 2
        /\ collection_count(store) = 2

\* A completed add_documents call whose metadatas list is not of the texts'
\* length.
Mismatched(p) ==
    /\ IsAdd(p)
    /\ ~args[p].metadatas.none
    /\ Len(args[p].metadatas.val) /= Len(args[p].texts)

\* C15: an add_documents call given texts and metadatas of different lengths
\* ends in the validation error LengthMismatch, and its last step leaves the
\* store, and so the count, as it was.
C15_LengthMismatchRejected ==
    [][\A p \in Callers :
          (Mismatched(p) /\ pc[p] = "add" /\ pc'[p] = "done")
          => /\ ret'[p].kind = "raise"
             /\ ret'[p].error = "LengthMismatch"
             /\ store' = store]_vars

\* C16: a retrieval that brings m >= 1 documents leaves a context of exactly
\* m blocks joined by blank lines, the k-th being "[Source k]: " followed by
\* the k-th retrieved document, and m source labels, the k-th being the k-th
\* retrieved document's 'source' metadata value, or "Source k" where the
\* metadata has no such key; and this context is what the user message of the
\* generation request carries.
C16_ContextBlocksFollowRetrieval ==
    /\ [][\A p \in Callers :
            (IsQuery(p) /\ pc[p] = "retrieve" /\ pc'[p] = "generate")
            => \E results \in collection_query(store, args[p].question,
                                               args[p].n_results) :
                  LET m == Len(results)
                  IN  /\ m >= 1
                      /\ Len(context'[p]) = 3 * m - 1
                      /\ Len(sources'[p]) = m
                      /\ \A k \in 1..m :
                            /\ context'[p][3 * k - 2]
                                 = "[Source " \o ToString(k) \o "]: "
                            /\ context'[p][3 * k - 1] = results[k].document
                            /\ k < m => context'[p][3 * k] = "\n\n"
                            /\ sources'[p][k]
                                 = IF "source" \in DOMAIN results[k].metadata
                                   THEN results[k].metadata["source"]
                                   ELSE "Source " \o ToString(k)]_vars
    /\ [](\A p \in Callers :
            (IsQuery(p) /\ claudeCalls[p] /= <<>>)
            => /\ context[p] /= <<>>
               /\ SubSeq(claudeCalls[p][1].request.user, 2, Len(context[p]) + 1)
                    = context[p])

\* A query has returned after retrieving two documents, the first with a
\* 'source' metadata value and the second without one.
C16_Witness ==
    \E p \in Callers :
        /\ Completed(p) /\ IsQuery(p)
        /\ Len(sources[p]) = 2
        /\ sources[p][1] = "custom-source"
        /\ sources[p][2] = "Source 2"
        /\ Len(context[p]) = 5
        /\ claudeCalls[p] /= <<>>

\* C17: the identifiers one add_documents call has assigned so far are
\* contiguous from a single count c: the i-th of them (0-based) is doc_<c+i>,
\* whatever other add_documents calls completed meanwhile.
C17_IdsFromSingleCount ==
    \A p \in Callers :
        IsAdd(p)
        => \E c \in 0..MaxCount :
              \A i \in 1..Len(ids[p]) : ids[p][i] = DocId(c + i - 1)

\* C18: no two documents of one add_documents call are given the same
\* identifier, in any interleaving with other add_documents calls on the
\* collection, which only grows.
C18_BatchIdsDistinct ==
    /\ [](\A p \in Callers :
            IsAdd(p) => \A i, j \in 1..Len(ids[p]) : i /= j => ids[p][i] /= ids[p][j])
    /\ [][collection_count(store') >= collection_count(store)]_vars

\* A call has completed whose two identifiers were computed before and after
\* another call's insertion.
C18_Witness ==
    \E p \in Callers :
        /\ Completed(p) /\ IsAdd(p)
        /\ ids[p] = <<"doc_0", "doc_2">>

\* A process_voice call that was given a recording has returned its triple
\* for a transcription that is not blank.
PvCompleted ==
    /\ pvPc = "done"
    /\ pvRet.kind = "value"
    /\ ~pvArgs.audio_path.none
    /\ transcription \notin {"", "   "}

\* C19: a process_voice call given a recording whose transcription is not
\* blank invokes its collaborators in the order transcribe, query, speak and
\* none of them twice; the query is entered with the transcription as question
\* and the default number of results, the answer kept is the one the query
\* returned, the synthesis request is made for exactly this answer, and the
\* call returns the transcription, the answer and the path speak returned.
C19_PipelineOnceInOrder ==
    /\ [](/\ Len(calls) <= 3
          /\ \A i \in 1..Len(calls) : calls[i].fn = <<"transcribe", "query", "speak">>[i]
          /\ PvCompleted
               => /\ calls = <<[fn |-> "transcribe", arg |-> pvArgs.audio_path.val],
                               [fn |-> "query", arg |-> transcription],
                               [fn |-> "speak", arg |-> answer]>>
                  /\ Len(convertCalls) = 1
                  /\ convertCalls[1].text = answer
                  /\ speakRet.kind = "value"
                  /\ pvRet.value = <<transcription, answer, Some(speakRet.value)>>)
    /\ [][/\ (pvPc = "query" /\ pvPc' = "in_query")
               => args'[PvCaller] = [op |-> "query", question |-> transcription,
                                     n_results |-> 3]
          /\ (pvPc = "in_query" /\ pvPc' = "speak")
               => /\ ret[PvCaller].kind = "value"
                  /\ answer' = ret[PvCaller].value.answer
          /\ (pvPc = "speak" /\ pvPc' = "done")
               => /\ convertCalls' = <<ConvertRequest(answer, voice)>>
                  /\ answer' = answer
                  /\ transcription' = transcription]_vars

\* The speech model heard a question with outer whitespace, the query
\* generated an answer with outer whitespace from a stored document, and the
\* call returned after speaking it.
C19_Witness ==
    /\ PvCompleted
    /\ whisperText = Some(" Where is the pool? ")
    /\ transcription = "Where is the pool?"
    /\ answer = "  The pool is on 5.\n"
    /\ Len(calls) = 3
    /\ store /= {}

\* C20: a process_voice call given no recording has invoked no collaborator
\* and returned an empty transcription, the message asking to record a
\* question, and no audio path; a call whose transcription came out empty or
\* of whitespace only has invoked transcribe alone and returned an empty
\* transcription, the message that nothing was heard, and no audio path; the
\* step that returns either leaves the knowledge base and the speech
\* synthesis as they were, and no kb call of the handler is in progress.
C20_ShortCircuits ==
    /\ []((pvPc = "done" /\ pvRet.kind = "value")
           => /\ pvArgs.audio_path.none
                   => /\ calls = <<>>
                      /\ pvRet.value = <<"", "Please record a question first.", None>>
              /\ (~pvArgs.audio_path.none /\ transcription \in {"", "   "})
                   => /\ Len(calls) = 1
                      /\ calls[1].fn = "transcribe"
                      /\ pvRet.value
                           = <<"", "I couldn't hear anything. Please try again.", None>>)
    /\ []((pvPc \in {"idle", "transcribe"}) => pc[PvCaller] = "idle")
    /\ [][(pvPc \in {"idle", "transcribe"} /\ pvPc' = "done")
            => /\ kbVars' = kbVars
               /\ ttsVars' = ttsVars]_vars

\* With a document stored, the speech model heard whitespace only and the
\* call returned the message that nothing was heard.
C20_Witness ==
    /\ pvPc = "done"
    /\ pvRet.kind = "value"
    /\ whisperText = Some("   ")
    /\ pvRet.value[2] = NothingHeardMessage
    /\ store /= {}
    /\ pc[PvCaller] = "idle"

\* The path a speak call with this output_path argument writes to.
PathOf(output_path) == IF output_path.none THEN "/tmp/response.mp3" ELSE output_path.val

\* C21: a completed speak call has returned the path it wrote to, the given
\* one or the fixed temp path when none was given, and the file at that path
\* holds exactly the chunks this call received, concatenated in their order,
\* whatever the file held before the call; so after two calls without a path
\* the file holds the second call's audio only.
C21_FileHoldsThisCallsAudio ==
    /\ []((ttsCall.op = "speak" /\ speakRet.kind = "value")
            => /\ speakRet.value = PathOf(ttsCall.output_path)
               /\ audio \in AudioStreams
               /\ ~files[speakRet.value].none
               /\ files[speakRet.value].val
                    = (IF Len(audio) = 1 THEN audio[1] ELSE audio[1] \o audio[2]))
    /\ [][(ttsCall'.op = "speak" /\ speakRet'.kind = "value"
             /\ ttsCall'.output_path.none /\ ~files["/tmp/response.mp3"].none)
            => /\ speakRet'.value = "/tmp/response.mp3"
               /\ files'["/tmp/response.mp3"].val = Written(audio')
               /\ \A path \in Paths \ {"/tmp/response.mp3"} :
                     files'[path] = files[path]]_vars

\* A speak call without a path has returned after receiving two chunks, and
\* the temp file holds these two; an earlier call wrote the other file.
C21_Witness ==
    /\ ttsCall.op = "speak"
    /\ ttsCall.output_path.none
    /\ speakRet.kind = "value"
    /\ audio = <<"ID3b", "b2">>
    /\ files["/tmp/response.mp3"] = Some("ID3bb2")
    /\ ~files["/out/answer.mp3"].none

====
